---- MODULE Spec2Model ----
(***************************************************************************)
(* Resumail backend (server/index.js): the /analyzev2 batch-aggregation    *)
(* pipeline with credit metering, the /consume reservation and the Stripe  *)
(* webhook top-up, as a state machine.  Every await of a handler is one    *)
(* step: the code between two awaits runs without interleaving (Node's     *)
(* event loop), the awaited storage or oracle operation takes effect at    *)
(* the step that resumes the handler.                                      *)
(***************************************************************************)
EXTENDS Integers, Sequences, FiniteSets, TLC

\* ------------------------------------------------------------------------
\* Program constants
\* ------------------------------------------------------------------------
BATCH_SIZE == 50
MERGE_BATCH_SIZE == 5
CREDITS_PER_EMAIL == 1
SUMMARY_SLICE == 1000

\* ------------------------------------------------------------------------
\* Bounds of the model
\* ------------------------------------------------------------------------
\* longest brace/prose text handed to safeParseJson in SpecRepair
MaxTextLen == 4
\* largest count that appears in an oracle's JSON in SpecRepair
MaxCount == 2
\* most batches of one /analyzev2 request
MaxBatches == 3
\* concurrent /analyzev2 requests in SpecConc
NumRuns == 2
\* largest amount of a /consume request and of a top-up
MaxAmount == 2
\* longest list handed to mergeReports in SpecMerge
MaxMergeLen == 6
\* most identical results handed to mergeReports in SpecMergeSum
MaxIdentical == 26
\* longest array and largest size handed to chunkArray in SpecChunk, besides
\* the sizes and a length the program uses
MaxChunkLen == 12
MaxChunkSize == 4

\* ------------------------------------------------------------------------
\* JSON values.  One record shape for every value, so that any two values
\* can be compared: t is the JavaScript type, n a number, s a string (a
\* sequence of characters), a an array of strings, ks/c the keys and the
\* counts of an object that maps categories to numbers.
\* ------------------------------------------------------------------------
Categories == {"positive", "negative", "neutral", "other"}
ZeroCounts == [k \in Categories |-> 0]

JBase == [t |-> "undefined", n |-> 0, ks |-> {}, c |-> ZeroCounts, s |-> <<>>, a |-> <<>>]
JUndef == JBase
JNull == [JBase EXCEPT !.t = "null"]
JNum(k) == [JBase EXCEPT !.t = "number", !.n = k]
JStr(str) == [JBase EXCEPT !.t = "string", !.s = str]
JArr(items) == [JBase EXCEPT !.t = "array", !.a = items]
JObj(keys, counts) ==
    [JBase EXCEPT !.t = "object", !.ks = keys,
                  !.c = [k \in Categories |-> IF k \in keys THEN counts[k] ELSE 0]]

\* JavaScript truthiness, as `!v` reads it: undefined, null, 0 and "" are falsy,
\* every array and every object (the empty ones too) is truthy.
Truthy(v) ==
    CASE v.t = "undefined" -> FALSE
      [] v.t = "null" -> FALSE
      [] v.t = "number" -> v.n # 0
      [] v.t = "string" -> v.s # <<>>
      [] OTHER -> TRUE

\* ------------------------------------------------------------------------
\* Text.  A text is a sequence of tokens: a prose character, a brace, or one
\* member `"key": value` of a JSON object (with its separator).
\* ------------------------------------------------------------------------
Keys == {"total_emails", "classification", "highlights", "summary", "extra"}
Ch(kind) == [k |-> kind, v |-> JNull]
Prose == Ch("x")
LBrace == Ch("{")
RBrace == Ch("}")
Member(key, val) == [k |-> key, v |-> val]

Min(S) == CHOOSE x \in S : \A y \in S : x <= y
Max(S) == CHOOSE x \in S : \A y \in S : x >= y

\* str.slice(0, n)
Slice(str, n) == SubSeq(str, 1, IF Len(str) < n THEN Len(str) ELSE n)

\* str.match(/\{[\s\S]*\}/m): greedy, from the first "{" that has a "}" after it
\* to the last "}" of the text; <<>> stands for null (no match: a match is
\* never empty).
RegexMatch(str) ==
    LET opens == {i \in 1..Len(str) : str[i] = LBrace}
        closes == {j \in 1..Len(str) : str[j] = RBrace}
    IN  IF opens = {} \/ closes = {} \/ Max(closes) < Min(opens)
        THEN <<>>
        ELSE SubSeq(str, Min(opens), Max(closes))

\* JSON.parse of a text that starts with "{": it parses when it is one object,
\* "{" members "}", and throws otherwise.
JsonParses(m) ==
    /\ Len(m) >= 2
    /\ m[1] = LBrace
    /\ m[Len(m)] = RBrace
    /\ \A i \in 2..(Len(m) - 1) : m[i].k \in Keys

\* The parsed object: each key's last member, undefined when it has none.
JsonParse(m) ==
    [key \in Keys |->
        LET at == {i \in 2..(Len(m) - 1) : m[i].k = key}
        IN  IF at = {} THEN JUndef ELSE m[Max(at)].v]

AllZero == JObj(Categories, ZeroCounts)

\* Fallback with the whole text as summary
FallbackWhole(str, fallbackTotal) ==
    [total_emails |-> JNum(fallbackTotal),
     classification |-> AllZero,
     highlights |-> JArr(<<>>),
     summary |-> JStr(str)]

\* The catch branch of safeParseJson.
Fallback(str, fallbackTotal) ==
    [total_emails |-> JNum(fallbackTotal),
     classification |-> AllZero,
     highlights |-> JArr(<<>>),
     summary |-> JStr(Slice(str, SUMMARY_SLICE))]

\* The try branch of safeParseJson, after JSON.parse succeeded.
FillDefaults(parsed, fallbackTotal) ==
    [total_emails |-> IF ~Truthy(parsed["total_emails"])
                      THEN JNum(fallbackTotal) ELSE parsed["total_emails"],
     classification |-> IF ~Truthy(parsed["classification"])
                        THEN AllZero ELSE parsed["classification"],
     highlights |-> IF ~Truthy(parsed["highlights"])
                    THEN JArr(<<>>) ELSE parsed["highlights"],
     summary |-> IF ~Truthy(parsed["summary"])
                 THEN JStr(<<>>) ELSE parsed["summary"]]

safeParseJson(str, fallbackTotal) ==
    LET m == RegexMatch(str)
    IN  IF m # <<>> /\ JsonParses(m)
        THEN FillDefaults(JsonParse(m), fallbackTotal)
        ELSE Fallback(str, fallbackTotal)

\* An AnalysisResult with its four fields well typed.
WellFormed(r) ==
    /\ r.total_emails.t = "number" /\ r.total_emails.n >= 0
    /\ r.classification.t = "object"
    /\ r.classification.ks = Categories
    /\ \A k \in Categories : r.classification.c[k] >= 0
    /\ r.highlights.t = "array"
    /\ r.summary.t = "string"

\* ------------------------------------------------------------------------
\* chunkArray(array, size): slices of `size` elements, in order.
\* ------------------------------------------------------------------------
\* chunkFrom keeping the slices of exactly `size` elements only
RECURSIVE chunkFromFullOnly(_, _, _)
chunkFromFullOnly(array, size, i) ==
    IF i + size - 1 > Len(array) THEN <<>>
    ELSE <<SubSeq(array, i, i + size - 1)>> \o chunkFromFullOnly(array, size, i + size)

\* the loop of chunkArray from index i (1-based) on
RECURSIVE chunkFrom(_, _, _)
chunkFrom(array, size, i) ==
    IF i > Len(array) THEN <<>>
    ELSE <<SubSeq(array, i, IF i + size - 1 < Len(array) THEN i + size - 1 ELSE Len(array))>>
         \o chunkFrom(array, size, i + size)

chunkArray(array, size) == chunkFrom(array, size, 1)

\* ------------------------------------------------------------------------
\* State
\* ------------------------------------------------------------------------
VARIABLES
    credits,    \* profiles.credits of each existing account
    opening,    \* history: profiles.credits before the first request
    reports,    \* the rows of the reports table
    run,        \* each /analyzev2 request: its locals and where it stands
    cons,       \* the /consume request
    hook,       \* the /webhook request (checkout.session.completed)
    rep,        \* one call of safeParseJson (SpecRepair)
    chk         \* one call of chunkArray (SpecChunk)

vars == <<credits, opening, reports, run, cons, hook, rep, chk>>

Accounts == {"u1"}
Runs == 1..NumRuns
\* JavaScript's null where a balance is expected
NoBalance == 0 - 1
\* no row id
NoId == <<>>
\* NewId giving every row of a request the same id, as a save keyed by the
\* request would
NewIdPerRun(r, rec) == <<r, 1>>

\* the id the store generates for the row a request inserts: unique, and
\* opaque to the handler (the request and the count of its rows)
NewId(r, rec) == <<r, Len(rec.miniReportIds) + 1>>
\* undefined where an AnalysisResult is expected
NoResult == [total_emails |-> JUndef, classification |-> JUndef,
             highlights |-> JUndef, summary |-> JUndef]

Exists(u) == u \in Accounts
Balance(u) == IF Exists(u) THEN credits[u] ELSE NoBalance

\* req.body.emails of size n: the records, by position
Emails(n) == [j \in 1..n |-> j]

IdleRun ==
    [pc |-> "idle", userId |-> "", isArray |-> TRUE, emails |-> <<>>,
     neededCredits |-> 0, newBalance |-> NoBalance, profileCredits |-> 0,
     i |-> 0, parsed |-> NoResult, miniReportIds |-> <<>>, partialJsons |-> <<>>,
     jsonList |-> <<>>, g |-> 0, merged |-> <<>>, finalJson |-> NoResult,
     status |-> 0, error |-> "", creditsLeft |-> NoBalance, finalReportId |-> NoId,
     \* history of the request, read by the properties only
     path |-> "", writes |-> 0,
     oracleCalls |-> 0, oracleAnswers |-> 0, unsaved |-> 0, rounds |-> 0,
     \* how the last oracle call of mergeReports ended
     mergeKind |-> "",
     \* every oracle call so far answered the JSON of the right counts
     conserving |-> TRUE,
     \* the oracle calls that have ended (resolved or thrown)
     oracleSettled |-> 0]

IdleCons ==
    [pc |-> "idle", userId |-> "", amount |-> 0, profileCredits |-> 0,
     status |-> 0, error |-> "", credits |-> NoBalance, writes |-> 0]

IdleHook ==
    [pc |-> "idle", userId |-> "", creditsPurchased |-> 0, paid |-> FALSE,
     profileCredits |-> 0, status |-> 0, error |-> "", writes |-> 0]

IdleRep == [pc |-> "idle", str |-> <<>>, fallbackTotal |-> 0, out |-> NoResult]

IdleChk == [pc |-> "idle", array |-> <<>>, size |-> 1, out |-> <<>>]

\* No request has been received yet.
Quiet ==
    /\ \A r \in Runs : run[r].pc = "idle"
    /\ cons.pc = "idle"
    /\ hook.pc = "idle"

\* res.status(code).json({error}) and return
Respond(rec, code, err) == [rec EXCEPT !.pc = "done", !.status = code, !.error = err]

\* ------------------------------------------------------------------------
\* The oracle (openai.chat.completions.create): a call throws, or returns a
\* completion whose content is a text.  The texts an oracle may return, by
\* kind; "empty" is a completion without content.
\* ------------------------------------------------------------------------
RECURSIVE SumTotals(_)
SumTotals(list) ==
    IF list = <<>> THEN 0 ELSE Head(list).total_emails.n + SumTotals(Tail(list))

RECURSIVE SumCounts(_)
SumCounts(list) ==
    IF list = <<>> THEN ZeroCounts
    ELSE [k \in Categories |-> Head(list).classification.c[k] + SumCounts(Tail(list))[k]]

RECURSIVE ConcatHighlights(_)
ConcatHighlights(list) ==
    IF list = <<>> THEN <<>> ELSE Head(list).highlights.a \o ConcatHighlights(Tail(list))

JsonText(total, counts, highlights, summary) ==
    <<LBrace, Member("total_emails", JNum(total)),
      Member("classification", JObj(Categories, counts)),
      Member("highlights", JArr(highlights)),
      Member("summary", JStr(summary)), RBrace>>

\* a JSON object with a mistyped total and a classification of one category
PartialText ==
    <<LBrace, Member("classification", JObj({"positive"}, [ZeroCounts EXCEPT !["positive"] = 1])),
      Member("total_emails", JStr(<<Prose>>)), RBrace>>

\* the answer to "Analyze the following ${batch.length} emails"
BatchReply(kind, batch) ==
    CASE kind = "good" ->
            <<Prose>> \o JsonText(Len(batch), [ZeroCounts EXCEPT !["positive"] = Len(batch)],
                                  <<>>, <<Prose>>) \o <<Prose>>
      [] kind = "partial" -> PartialText
      [] kind = "prose" -> <<Prose, Prose>>
      [] OTHER -> <<>>

\* the answer to the merge prompt over REPORT 1..n: "good" sums the counts
\* and concatenates the highlights
MergeReply(kind, group) ==
    CASE kind = "good" ->
            JsonText(SumTotals(group), SumCounts(group), ConcatHighlights(group), <<Prose>>)
      [] kind = "partial" -> PartialText
      [] kind = "prose" -> <<Prose, Prose>>
      [] OTHER -> <<>>

Answered(kind) == kind \notin {"throw", "empty"}

\* ------------------------------------------------------------------------
\* Account store
\* ------------------------------------------------------------------------
\* supabase.rpc("decrement_credits", {p_user_id, p_amount}): the stored
\* procedure, atomic at the storage layer: it decrements when the account
\* exists and holds the amount, and is rejected (an error) otherwise.
decrement_credits(u, amount) ==
    IF Exists(u) /\ credits[u] >= amount
    THEN [error |-> FALSE, credits |-> credits[u] - amount]
    ELSE [error |-> TRUE, credits |-> Balance(u)]

\* typeof rpcData === "number" ? rpcData : rpcData?.[0]?.credits ?? null
RpcBalance(shape, value) ==
    IF shape = "number" THEN value
    ELSE LET rows == <<[credits |-> value]>> IN rows[1].credits

\* profiles.update({credits: value}).eq("id", u)
SetCredits(u, value) == credits' = [credits EXCEPT ![u] = value]

\* ------------------------------------------------------------------------
\* POST /analyzev2
\* ------------------------------------------------------------------------
\* Batches keeping the first batch only
BatchesHead(rec) == SubSeq(chunkArray(rec.emails, BATCH_SIZE), 1, 1)

\* const batches = chunkArray(emails, BATCH_SIZE)
Batches(rec) == chunkArray(rec.emails, BATCH_SIZE)

\* EnterBatch issuing the calls of batches i and i + 1 together
EnterBatchPair(rec, i) ==
    [rec EXCEPT !.pc = "oracle", !.i = i, !.oracleCalls = @ + 2]

\* the batch loop reaches batch i and awaits its oracle call
EnterBatch(rec, i) ==
    [rec EXCEPT !.pc = "oracle", !.i = i, !.oracleCalls = @ + 1]

\* EnterMerge without the base case of a list of one
EnterMergeNoBase(rec, jsonList) ==
    IF chunkArray(jsonList, MERGE_BATCH_SIZE) = <<>>
    THEN Respond(rec, 500, "IA analysis failed")
    ELSE [rec EXCEPT !.pc = "merge", !.jsonList = jsonList, !.g = 1,
                     !.merged = <<>>, !.rounds = @ + 1,
                     !.oracleCalls = @ + 1]

\* mergeReports(jsonList) up to its first await, or to its return
EnterMerge(rec, jsonList) ==
    IF Len(jsonList) = 1
    THEN [rec EXCEPT !.pc = "final_insert", !.finalJson = jsonList[1]]
    ELSE IF chunkArray(jsonList, MERGE_BATCH_SIZE) = <<>>
         \* merged[0] is undefined: finalJson.total_emails throws, the outer
         \* catch answers
         THEN Respond(rec, 500, "IA analysis failed")
         ELSE [rec EXCEPT !.pc = "merge", !.jsonList = jsonList, !.g = 1,
                          !.merged = <<>>, !.rounds = @ + 1,
                          !.oracleCalls = @ + 1]

\* Receive without the test of userId
ReceiveNoUserCheck(r, users, counts, exclusive) ==
    /\ run[r].pc = "idle"
    /\ exclusive => Quiet
    /\ \E u \in users, isArray \in BOOLEAN, n \in counts :
         /\ ~isArray => n = 0
         /\ LET rec == [run[r] EXCEPT !.userId = u, !.isArray = isArray,
                                      !.emails = Emails(n)]
            IN  run' = [run EXCEPT ![r] =
                    IF ~isArray \/ n = 0
                    THEN Respond(rec, 400, "Missing userId or emails")
                    ELSE [rec EXCEPT !.pc = "rpc",
                                     !.neededCredits = n * CREDITS_PER_EMAIL]]
    /\ UNCHANGED <<credits, opening, reports, cons, hook, rep, chk>>

\* validation, then the call of the stored procedure
Receive(r, users, counts, exclusive) ==
    /\ run[r].pc = "idle"
    /\ exclusive => Quiet
    /\ \E u \in users, isArray \in BOOLEAN, n \in counts :
         /\ ~isArray => n = 0
         /\ LET rec == [run[r] EXCEPT !.userId = u, !.isArray = isArray,
                                      !.emails = Emails(n)]
            IN  run' = [run EXCEPT ![r] =
                    IF u = "" \/ ~isArray \/ n = 0
                    THEN Respond(rec, 400, "Missing userId or emails")
                    ELSE [rec EXCEPT !.pc = "rpc",
                                     !.neededCredits = n * CREDITS_PER_EMAIL]]
    /\ UNCHANGED <<credits, opening, reports, cons, hook, rep, chk>>

\* RpcReturn without `if (rpcErr) return res.status(402)`
RpcReturnIgnoreError(r, outcomes) ==
    /\ run[r].pc = "rpc"
    /\ \E o \in outcomes :
         LET rec == run[r]
             res == decrement_credits(rec.userId, rec.neededCredits)
         IN  IF o = "throw"
             THEN /\ run' = [run EXCEPT ![r] = [rec EXCEPT !.pc = "fb_select",
                                                            !.path = "fallback"]]
                  /\ UNCHANGED credits
             ELSE IF res.error
             THEN /\ run' = [run EXCEPT ![r] = EnterBatch([rec EXCEPT !.path = "rpc"], 1)]
                  /\ UNCHANGED credits
             ELSE /\ SetCredits(rec.userId, res.credits)
                  /\ run' = [run EXCEPT ![r] =
                          EnterBatch([rec EXCEPT !.path = "rpc",
                                                 !.newBalance = RpcBalance(o, res.credits),
                                                 !.writes = @ + 1],
                                     1)]
    /\ UNCHANGED <<opening, reports, cons, hook, rep, chk>>

\* the stored procedure answers, or the call throws
RpcReturn(r, outcomes) ==
    /\ run[r].pc = "rpc"
    /\ \E o \in outcomes :
         LET rec == run[r]
             res == decrement_credits(rec.userId, rec.neededCredits)
         IN  IF o = "throw"
             THEN /\ run' = [run EXCEPT ![r] = [rec EXCEPT !.pc = "fb_select",
                                                            !.path = "fallback"]]
                  /\ UNCHANGED credits
             ELSE IF res.error
             THEN /\ run' = [run EXCEPT ![r] =
                          Respond([rec EXCEPT !.path = "rpc"], 402, "Not enough credits")]
                  /\ UNCHANGED credits
             ELSE /\ SetCredits(rec.userId, res.credits)
                  /\ run' = [run EXCEPT ![r] =
                          EnterBatch([rec EXCEPT !.path = "rpc",
                                                 !.newBalance = RpcBalance(o, res.credits),
                                                 !.writes = @ + 1],
                                     1)]
    /\ UNCHANGED <<opening, reports, cons, hook, rep, chk>>

\* FbSelect without its compare of profile.credits with neededCredits
FbSelectNoCompare(r) ==
    /\ run[r].pc = "fb_select"
    /\ LET rec == run[r]
       IN  run' = [run EXCEPT ![r] =
               IF ~Exists(rec.userId)
               THEN Respond(rec, 404, "User not found")
               ELSE [rec EXCEPT !.pc = "fb_update",
                                !.profileCredits = credits[rec.userId]]]
    /\ UNCHANGED <<credits, opening, reports, cons, hook, rep, chk>>

\* fallback: profiles.select("credits").single(), then the local compare
FbSelect(r) ==
    /\ run[r].pc = "fb_select"
    /\ LET rec == run[r]
       IN  run' = [run EXCEPT ![r] =
               IF ~Exists(rec.userId)
               THEN Respond(rec, 404, "User not found")
               ELSE IF credits[rec.userId] < rec.neededCredits
               THEN Respond([rec EXCEPT !.profileCredits = credits[rec.userId]],
                            402, "Not enough credits")
               ELSE [rec EXCEPT !.pc = "fb_update",
                                !.profileCredits = credits[rec.userId]]]
    /\ UNCHANGED <<credits, opening, reports, cons, hook, rep, chk>>

\* FbUpdate charging one request's fee instead of neededCredits
FbUpdateFlatFee(r) ==
    /\ run[r].pc = "fb_update"
    /\ LET rec == run[r]
           value == rec.profileCredits - CREDITS_PER_EMAIL
       IN  /\ SetCredits(rec.userId, value)
           /\ run' = [run EXCEPT ![r] =
                   EnterBatch([rec EXCEPT !.newBalance = value, !.writes = @ + 1], 1)]
    /\ UNCHANGED <<opening, reports, cons, hook, rep, chk>>

\* FbUpdate taking the amount off the balance as it is at the write
FbUpdateRelative(r) ==
    /\ run[r].pc = "fb_update"
    /\ LET rec == run[r]
           value == credits[rec.userId] - rec.neededCredits
       IN  /\ SetCredits(rec.userId, value)
           /\ run' = [run EXCEPT ![r] =
                   EnterBatch([rec EXCEPT !.newBalance = value, !.writes = @ + 1], 1)]
    /\ UNCHANGED <<opening, reports, cons, hook, rep, chk>>

\* fallback: profiles.update({credits: profile.credits - neededCredits})
FbUpdate(r) ==
    /\ run[r].pc = "fb_update"
    /\ LET rec == run[r]
           value == rec.profileCredits - rec.neededCredits
       IN  /\ SetCredits(rec.userId, value)
           /\ run' = [run EXCEPT ![r] =
                   EnterBatch([rec EXCEPT !.newBalance = value, !.writes = @ + 1], 1)]
    /\ UNCHANGED <<opening, reports, cons, hook, rep, chk>>

\* BatchOracle without the try/catch around the oracle call: a throw reaches
\* the handler's outer catch
BatchOracleUncaught(r, kinds) ==
    /\ run[r].pc = "oracle"
    /\ \E kind \in kinds :
         LET rec == run[r]
             batch == Batches(rec)[rec.i]
         IN  run' = [run EXCEPT ![r] =
                 IF kind = "throw"
                 THEN Respond(rec, 500, "IA analysis failed")
                 ELSE [rec EXCEPT !.pc = "mini_insert",
                                  !.parsed = safeParseJson(BatchReply(kind, batch), Len(batch)),
                                  !.conserving = @ /\ kind = "good",
                                  !.oracleSettled = @ + 1,
                                  !.oracleAnswers = @ + (IF Answered(kind) THEN 1 ELSE 0)]]
    /\ UNCHANGED <<credits, opening, reports, cons, hook, rep, chk>>

\* the oracle call of batch i ends; safeParseJson repairs its text and the
\* insert of the mini-report is awaited
BatchOracle(r, kinds) ==
    /\ run[r].pc = "oracle"
    /\ \E kind \in kinds :
         LET rec == run[r]
             batch == Batches(rec)[rec.i]
             aiRaw == IF kind = "throw" THEN <<>> ELSE BatchReply(kind, batch)
         IN  run' = [run EXCEPT ![r] =
                 [rec EXCEPT !.pc = "mini_insert",
                             !.parsed = safeParseJson(aiRaw, Len(batch)),
                             !.conserving = @ /\ kind = "good",
                             !.oracleSettled = @ + 1,
                             !.oracleAnswers = @ + (IF Answered(kind) THEN 1 ELSE 0)]]
    /\ UNCHANGED <<credits, opening, reports, cons, hook, rep, chk>>

\* a row of the reports table; run and batch tell which request and which
\* batch wrote it (batch 0: the final report)
MiniRow(rec, r) ==
    [id |-> NewId(r, rec), user_id |-> rec.userId,
     total_emails |-> rec.parsed.total_emails, summary |-> rec.parsed.summary,
     classification |-> rec.parsed.classification,
     highlights |-> rec.parsed.highlights,
     mini_report_ids |-> <<>>, is_final |-> FALSE, run |-> r, batch |-> rec.i]

FinalRow(rec, r) ==
    [id |-> NewId(r, rec), user_id |-> rec.userId,
     total_emails |-> rec.finalJson.total_emails, summary |-> rec.finalJson.summary,
     classification |-> rec.finalJson.classification,
     highlights |-> rec.finalJson.highlights,
     mini_report_ids |-> rec.miniReportIds, is_final |-> TRUE, run |-> r, batch |-> 0]

\* KeepMini pushing the batch's result whether or not its row was saved
KeepMiniAlways(rec, saved, id) ==
    IF saved
    THEN [rec EXCEPT !.miniReportIds = Append(@, id),
                     !.partialJsons = Append(@, rec.parsed)]
    ELSE [rec EXCEPT !.partialJsons = Append(@, rec.parsed)]

\* what the handler keeps of batch i once its insert has answered
KeepMini(rec, saved, id) ==
    IF saved
    THEN [rec EXCEPT !.miniReportIds = Append(@, id),
                     !.partialJsons = Append(@, rec.parsed)]
    ELSE rec

\* the insert of the mini-report answers; the loop goes on to the next batch
\* or to mergeReports(partialJsons)
MiniInsert(r, outcomes) ==
    /\ run[r].pc = "mini_insert"
    /\ \E saved \in outcomes :
         LET rec == run[r]
             row == MiniRow(rec, r)
             kept == KeepMini([rec EXCEPT !.unsaved = @ + (IF saved THEN 0 ELSE 1)],
                              saved, row.id)
         IN  /\ reports' = IF saved THEN reports \cup {row} ELSE reports
             /\ run' = [run EXCEPT ![r] =
                     IF rec.i < Len(Batches(rec))
                     THEN EnterBatch(kept, rec.i + 1)
                     ELSE EnterMerge(kept, kept.partialJsons)]
    /\ UNCHANGED <<credits, opening, cons, hook, rep, chk>>

\* what a merge call leaves in `merged` for its group
MergedOf(kind, group) ==
    IF kind = "throw" THEN group[1]
    ELSE safeParseJson(MergeReply(kind, group), 0)

\* MergeRoundEnd recursing on the list it was given
MergeRoundEndSameList(rec, merged) ==
    IF Len(merged) > 1
    THEN EnterMerge(rec, rec.jsonList)
    ELSE [rec EXCEPT !.pc = "final_insert", !.finalJson = merged[1]]

\* MergeRoundEnd returning merged[0] after one round
MergeRoundEndNoRecursion(rec, merged) ==
    [rec EXCEPT !.pc = "final_insert", !.finalJson = merged[1]]

\* the end of mergeReports: another round over `merged`, or merged[0]
MergeRoundEnd(rec, merged) ==
    IF Len(merged) > 1
    THEN EnterMerge(rec, merged)
    ELSE [rec EXCEPT !.pc = "final_insert", !.finalJson = merged[1]]

\* the oracle call of merge group g ends
MergeOracle(r, kinds) ==
    /\ run[r].pc = "merge"
    /\ \E kind \in kinds :
         LET rec == run[r]
             groups == chunkArray(rec.jsonList, MERGE_BATCH_SIZE)
             merged == Append(rec.merged, MergedOf(kind, groups[rec.g]))
             seen == [rec EXCEPT !.merged = merged, !.mergeKind = kind,
                                 !.conserving = @ /\ kind = "good",
                                 !.oracleSettled = @ + 1,
                                 !.oracleAnswers = @ + (IF Answered(kind) THEN 1 ELSE 0)]
         IN  run' = [run EXCEPT ![r] =
                 IF rec.g < Len(groups)
                 THEN [seen EXCEPT !.g = @ + 1, !.oracleCalls = @ + 1]
                 ELSE MergeRoundEnd(seen, merged)]
    /\ UNCHANGED <<credits, opening, reports, cons, hook, rep, chk>>

\* mergeReports(partialJsons) is called
MergeCall(r) ==
    /\ run[r].pc = "merge_call"
    /\ run' = [run EXCEPT ![r] = EnterMerge(run[r], run[r].partialJsons)]
    /\ UNCHANGED <<credits, opening, reports, cons, hook, rep, chk>>

\* FinalInsert giving the credits back when the insert fails
FinalInsertRefunds(r, outcomes) ==
    /\ run[r].pc = "final_insert"
    /\ \E saved \in outcomes :
         LET rec == run[r]
             row == FinalRow(rec, r)
         IN  /\ reports' = IF saved THEN reports \cup {row} ELSE reports
             /\ credits' = IF saved THEN credits
                           ELSE [credits EXCEPT ![rec.userId] = @ + rec.neededCredits]
             /\ run' = [run EXCEPT ![r] =
                     IF saved
                     THEN [rec EXCEPT !.pc = "profile", !.finalReportId = row.id]
                     ELSE Respond(rec, 500, "Failed to save final report")]
    /\ UNCHANGED <<opening, cons, hook, rep, chk>>

\* the insert of the final report answers
FinalInsert(r, outcomes) ==
    /\ run[r].pc = "final_insert"
    /\ \E saved \in outcomes :
         LET rec == run[r]
             row == FinalRow(rec, r)
         IN  /\ reports' = IF saved THEN reports \cup {row} ELSE reports
             /\ run' = [run EXCEPT ![r] =
                     IF saved
                     THEN [rec EXCEPT !.pc = "profile", !.finalReportId = row.id]
                     ELSE Respond(rec, 500, "Failed to save final report")]
    /\ UNCHANGED <<credits, opening, cons, hook, rep, chk>>

\* the last read of the balance, and the answer
ProfileRead(r) ==
    /\ run[r].pc = "profile"
    /\ LET rec == run[r]
           profileAfter == Balance(rec.userId)
       IN  run' = [run EXCEPT ![r] =
               Respond([rec EXCEPT !.creditsLeft =
                            IF profileAfter # NoBalance THEN profileAfter
                            ELSE rec.newBalance],
                       200, "")]
    /\ UNCHANGED <<credits, opening, reports, cons, hook, rep, chk>>

\* ------------------------------------------------------------------------
\* POST /consume
\* ------------------------------------------------------------------------
ConsumeReceive(users, amounts, exclusive) ==
    /\ cons.pc = "idle"
    /\ exclusive => Quiet
    /\ \E u \in users, amount \in amounts :
         LET rec == [cons EXCEPT !.userId = u, !.amount = amount]
         IN  cons' = IF u = "" THEN Respond(rec, 400, "Missing params")
                     ELSE [rec EXCEPT !.pc = "select"]
    /\ UNCHANGED <<credits, opening, reports, run, hook, rep, chk>>

\* ConsumeSelect rejecting an amount equal to the balance
ConsumeSelectStrict ==
    /\ cons.pc = "select"
    /\ cons' = IF ~Exists(cons.userId)
               THEN Respond(cons, 404, "User not found")
               ELSE IF credits[cons.userId] <= cons.amount
               THEN Respond([cons EXCEPT !.profileCredits = credits[cons.userId]],
                            402, "Insufficient credits")
               ELSE [cons EXCEPT !.pc = "update",
                                 !.profileCredits = credits[cons.userId]]
    /\ UNCHANGED <<credits, opening, reports, run, hook, rep, chk>>

\* ConsumeSelect without its compare of profile.credits with amount
ConsumeSelectNoCompare ==
    /\ cons.pc = "select"
    /\ cons' = IF ~Exists(cons.userId)
               THEN Respond(cons, 404, "User not found")
               ELSE [cons EXCEPT !.pc = "update",
                                 !.profileCredits = credits[cons.userId]]
    /\ UNCHANGED <<credits, opening, reports, run, hook, rep, chk>>

ConsumeSelect ==
    /\ cons.pc = "select"
    /\ cons' = IF ~Exists(cons.userId)
               THEN Respond(cons, 404, "User not found")
               ELSE IF credits[cons.userId] < cons.amount
               THEN Respond([cons EXCEPT !.profileCredits = credits[cons.userId]],
                            402, "Insufficient credits")
               ELSE [cons EXCEPT !.pc = "update",
                                 !.profileCredits = credits[cons.userId]]
    /\ UNCHANGED <<credits, opening, reports, run, hook, rep, chk>>

ConsumeUpdate ==
    /\ cons.pc = "update"
    /\ LET value == cons.profileCredits - cons.amount
       IN  /\ SetCredits(cons.userId, value)
           /\ cons' = Respond([cons EXCEPT !.credits = value, !.writes = @ + 1], 200, "")
    /\ UNCHANGED <<opening, reports, run, hook, rep, chk>>

\* ------------------------------------------------------------------------
\* POST /webhook, event checkout.session.completed
\* ------------------------------------------------------------------------
\* the credits of the packs /create-checkout-session sells
CREDIT_PACKS == {100, 500, 2000}

HookReceive(users, purchases, exclusive) ==
    /\ hook.pc = "idle"
    /\ exclusive => Quiet
    /\ \E u \in users, n \in purchases :
         LET rec == [hook EXCEPT !.userId = u, !.creditsPurchased = n]
         IN  hook' = IF u = "" \/ n = 0
                     THEN Respond(rec, 500, "Erreur serveur webhook")
                     ELSE [rec EXCEPT !.pc = "payment"]
    /\ UNCHANGED <<credits, opening, reports, run, cons, rep, chk>>

\* the insert into payments answers
HookPayment(outcomes) ==
    /\ hook.pc = "payment"
    /\ \E saved \in outcomes :
         hook' = IF saved THEN [hook EXCEPT !.pc = "select", !.paid = TRUE]
                 ELSE Respond(hook, 500, "Erreur serveur webhook")
    /\ UNCHANGED <<credits, opening, reports, run, cons, rep, chk>>

HookSelect ==
    /\ hook.pc = "select"
    /\ hook' = IF ~Exists(hook.userId)
               THEN Respond(hook, 500, "Erreur serveur webhook")
               ELSE [hook EXCEPT !.pc = "update", !.profileCredits = credits[hook.userId]]
    /\ UNCHANGED <<credits, opening, reports, run, cons, rep, chk>>

HookUpdate ==
    /\ hook.pc = "update"
    /\ SetCredits(hook.userId, hook.profileCredits + hook.creditsPurchased)
    /\ hook' = Respond([hook EXCEPT !.writes = @ + 1], 200, "")
    /\ UNCHANGED <<opening, reports, run, cons, rep, chk>>

\* ------------------------------------------------------------------------
\* One call of safeParseJson(str, fallbackTotal)
\* ------------------------------------------------------------------------
RepairCall ==
    /\ rep.pc = "called"
    /\ rep' = [rep EXCEPT !.pc = "returned",
                          !.out = safeParseJson(rep.str, rep.fallbackTotal)]
    /\ UNCHANGED <<credits, opening, reports, run, cons, hook, chk>>

\* ------------------------------------------------------------------------
\* One call of chunkArray(array, size)
\* ------------------------------------------------------------------------
ChunkCall ==
    /\ chk.pc = "called"
    /\ chk' = [chk EXCEPT !.pc = "returned", !.out = chunkArray(chk.array, chk.size)]
    /\ UNCHANGED <<credits, opening, reports, run, cons, hook, rep>>

\* ------------------------------------------------------------------------
\* Environments
\* ------------------------------------------------------------------------
\* req.body.userId: missing, an account, no account
Users == {"", "u1", "ghost"}
\* emails.length of a request
EmailCounts ==
    {0, 1, 10, BATCH_SIZE + 1, BATCH_SIZE * (MaxBatches - 1) + 20}
\* profiles.credits before the request
InitialBalances == {0, 5, BATCH_SIZE * (MaxBatches + 1)}
\* the stored procedure answers a number, answers rows, or the call throws
RpcOutcomes == {"number", "rows", "throw"}
OracleKinds == {"throw", "empty", "prose", "good", "partial"}
\* an insert into reports or payments is saved, or answers an error
InsertOutcomes == {TRUE, FALSE}
ConsumeAmounts == (0 - 1)..MaxAmount \cup {10}

\* texts handed to safeParseJson: every short text of braces, prose and
\* members, and every object of optional members between optional prose
TotalValues == {JNum(0), JNum(MaxCount), JNum(0 - 1), JStr(<<Prose>>), JNull}
ClassValues ==
    {JObj(Categories, [k \in Categories |-> MaxCount]),
     JObj({"positive"}, [k \in Categories |-> MaxCount]),
     JObj(Categories, [k \in Categories |-> 0 - 1]),
     JStr(<<Prose>>), JNull}
HighlightValues == {JArr(<<>>), JArr(<< <<Prose>> >>), JStr(<<Prose>>), JNull}
SummaryValues == {JStr(<<Prose>>), JStr(<<>>), JNum(MaxCount), JNull}

Optional(key, values) == {<<>>} \cup {<<Member(key, v)>> : v \in values}

ObjectTexts ==
    {pre \o <<LBrace>> \o t \o c \o h \o su \o <<RBrace>> \o post :
        pre \in {<<>>, <<Prose>>}, post \in {<<>>, <<Prose>>},
        t \in Optional("total_emails", TotalValues),
        c \in Optional("classification", ClassValues),
        h \in Optional("highlights", HighlightValues),
        su \in Optional("summary", SummaryValues)}

BraceAlphabet ==
    {Prose, LBrace, RBrace, Member("summary", JStr(<<Prose>>)),
     Member("total_emails", JNum(0))}

BraceTexts ==
    UNION {[1..n -> BraceAlphabet] : n \in 0..MaxTextLen}

\* texts of about SUMMARY_SLICE characters: prose, and prose in braces
ProseOf(n) == [i \in 1..n |-> Prose]

LongTexts ==
    {ProseOf(SUMMARY_SLICE - 1), ProseOf(SUMMARY_SLICE), ProseOf(SUMMARY_SLICE + 1),
     ProseOf(SUMMARY_SLICE + MaxTextLen),
     <<LBrace>> \o ProseOf(SUMMARY_SLICE) \o <<RBrace, Prose>>,
     ProseOf(SUMMARY_SLICE) \o <<RBrace, LBrace>>}

RepairTexts == ObjectTexts \cup BraceTexts \cup LongTexts

\* ------------------------------------------------------------------------
\* Specifications
\* ------------------------------------------------------------------------
InitIdle ==
    /\ opening = credits
    /\ reports = {}
    /\ chk = IdleChk
    /\ run = [r \in Runs |-> IdleRun]
    /\ cons = IdleCons
    /\ hook = IdleHook

Init ==
    /\ credits \in [Accounts -> InitialBalances]
    /\ InitIdle
    /\ rep = IdleRep

\* One request, handled alone.
Analyze(r, exclusive, users, counts, kinds, inserts) ==
    \/ Receive(r, users, counts, exclusive)
    \/ RpcReturn(r, RpcOutcomes)
    \/ FbSelect(r)
    \/ FbUpdate(r)
    \/ BatchOracle(r, kinds)
    \/ MiniInsert(r, inserts)
    \/ MergeOracle(r, kinds)
    \/ FinalInsert(r, inserts)
    \/ ProfileRead(r)

Consume(exclusive, users, amounts) ==
    \/ ConsumeReceive(users, amounts, exclusive)
    \/ ConsumeSelect
    \/ ConsumeUpdate

Webhook(exclusive, users, purchases) ==
    \/ HookReceive(users, purchases, exclusive)
    \/ HookPayment(InsertOutcomes)
    \/ HookSelect
    \/ HookUpdate

Next ==
    \/ Analyze(1, TRUE, Users, EmailCounts, OracleKinds, InsertOutcomes)
    \/ Consume(TRUE, Users, ConsumeAmounts)
    \/ Webhook(TRUE, Users, {0} \cup CREDIT_PACKS)

Spec == Init /\ [][Next]_vars

\* Requests on one account that overlap: every interleaving of their awaits.
ConcCounts == {BATCH_SIZE + 1}
ConcBalances == {0, BATCH_SIZE + 1, 2 * (BATCH_SIZE + 1)}

InitConc ==
    /\ credits \in [Accounts -> ConcBalances]
    /\ InitIdle
    /\ rep = IdleRep

NextConc ==
    \/ \E r \in Runs : Analyze(r, FALSE, {"u1"}, ConcCounts, {"throw"}, {TRUE})
    \/ Consume(FALSE, {"u1"}, ConcCounts)
    \/ Webhook(FALSE, {"u1"}, {Min(CREDIT_PACKS)})

SpecConc == InitConc /\ [][NextConc]_vars

\* Reservations of /analyzev2 requests that overlap on one account, each
\* request of one batch: every interleaving of their awaits, on both ledger
\* paths.
ReserveCounts == {MaxAmount, MaxAmount + 1}
ReserveBalances == {0, MaxAmount + 1, 2 * MaxAmount + 1}

InitReserve ==
    /\ credits \in [Accounts -> ReserveBalances]
    /\ InitIdle
    /\ rep = IdleRep

NextReserve ==
    \E r \in Runs :
        \/ Receive(r, {"u1"}, ReserveCounts, FALSE)
        \/ RpcReturn(r, RpcOutcomes)
        \/ FbSelect(r)
        \/ FbUpdate(r)
        \/ BatchOracle(r, {"good"})
        \/ MiniInsert(r, {TRUE})
        \/ FinalInsert(r, {TRUE})
        \/ ProfileRead(r)

SpecReserve == InitReserve /\ [][NextReserve]_vars

\* Every text, repaired.
InitRepair ==
    /\ credits = [u \in Accounts |-> 0]
    /\ InitIdle
    /\ rep \in {[IdleRep EXCEPT !.pc = "called", !.str = str, !.fallbackTotal = f] :
                  str \in RepairTexts, f \in 0..MaxCount}

NextRepair == RepairCall

SpecRepair == InitRepair /\ [][NextRepair]_vars

\* Every short array of records, chunked by every small size and by the two
\* sizes the program uses; arrays of 50 and 120 records, by those two sizes.
ProgramSizes == {MERGE_BATCH_SIZE, BATCH_SIZE}
ChunkInputs ==
    ((0..MaxChunkLen) \X (1..MaxChunkSize \cup ProgramSizes))
        \cup ({BATCH_SIZE, 2 * BATCH_SIZE + 20} \X ProgramSizes)

InitChunk ==
    /\ credits = [u \in Accounts |-> 0]
    /\ opening = credits
    /\ reports = {}
    /\ run = [r \in Runs |-> IdleRun]
    /\ cons = IdleCons
    /\ hook = IdleHook
    /\ rep = IdleRep
    /\ chk \in {[IdleChk EXCEPT !.pc = "called", !.array = Emails(in[1]), !.size = in[2]] :
                  in \in ChunkInputs}

NextChunk == ChunkCall

SpecChunk == InitChunk /\ [][NextChunk]_vars

\* Every short list of results, merged under every behaviour of the oracle.
ResultWith(total, count) ==
    [total_emails |-> JNum(total),
     classification |-> JObj(Categories, [k \in Categories |-> count]),
     highlights |-> JArr(<<>>), summary |-> JStr(<<Prose>>)]

MergeInputs == {ResultWith(BATCH_SIZE, MaxCount), Fallback(<<>>, 1)}

MergeLists == UNION {[1..n -> MergeInputs] : n \in 1..MaxMergeLen}

InitMergeOf(lists) ==
    /\ credits = [u \in Accounts |-> 0]
    /\ opening = credits
    /\ reports = {}
    /\ cons = IdleCons
    /\ hook = IdleHook
    /\ rep = IdleRep
    /\ chk = IdleChk
    /\ run \in {[r \in Runs |->
                    IF r = 1
                    THEN [IdleRun EXCEPT !.pc = "merge_call", !.userId = "u1",
                                         !.partialJsons = list]
                    ELSE IdleRun] : list \in lists}

InitMerge == InitMergeOf(MergeLists)

NextMerge ==
    \/ MergeCall(1)
    \/ MergeOracle(1, OracleKinds)

SpecMerge == InitMerge /\ [][NextMerge]_vars

\* N identical results, merged by an oracle that always answers the JSON of
\* the summed counts and the concatenated highlights.
IdenticalLists ==
    {[k \in 1..n |-> ResultWith(BATCH_SIZE, c)] : n \in 1..MaxIdentical, c \in 0..MaxCount}

InitMergeSum == InitMergeOf(IdenticalLists)

NextMergeSum ==
    \/ MergeCall(1)
    \/ MergeOracle(1, {"good"})

SpecMergeSum == InitMergeSum /\ [][NextMergeSum]_vars

\* ------------------------------------------------------------------------
\* What a request has come to
\* ------------------------------------------------------------------------
Validated(rec) == rec.pc # "idle" /\ rec.status # 400
InsufficientCredits(rec) == rec.pc = "done" /\ rec.status = 402
AccountNotFound(rec) == rec.pc = "done" /\ rec.status = 404
StorageError(rec) ==
    rec.pc = "done" /\ rec.status = 500 /\ rec.error = "Failed to save final report"
Success(rec) == rec.pc = "done" /\ rec.status = 200
\* the reservation is over: the request answered at the ledger stage, or
\* went on to its first batch
LedgerDone(rec) == Validated(rec) /\ rec.pc \notin {"rpc", "fb_select", "fb_update"}
LedgerFailed(rec) == InsufficientCredits(rec) \/ AccountNotFound(rec)
Proceeded(rec) == rec.oracleCalls > 0
\* the batch loop is over
BatchesDone(rec) ==
    Proceeded(rec) /\ rec.pc \in {"merge", "final_insert", "profile", "done"}
Amount(rec) == Len(rec.emails) * CREDITS_PER_EMAIL
ResultOf(row) ==
    [total_emails |-> row.total_emails, classification |-> row.classification,
     highlights |-> row.highlights, summary |-> row.summary]
RowsOf(r) == {row \in reports : row.run = r}
FinalRows == {row \in reports : row.is_final}
RowIds == {row.id : row \in reports}
RowById(id) == CHOOSE row \in reports : row.id = id

\* ------------------------------------------------------------------------
\* C1: a request handled alone is charged once, record_count x cost_per_record,
\* when it goes on to oracle work (whether the stored procedure answered or
\* threw and the fallback ran), and not at all when it ends at the ledger
\* stage; no request writes the balance twice.
\* ------------------------------------------------------------------------
C1_ChargedOnceOrNotAtAll ==
    \A r \in Runs :
        LET rec == run[r] IN
        /\ rec.writes <= 1
        /\ Proceeded(rec) =>
              /\ rec.writes = 1
              /\ credits[rec.userId] = opening[rec.userId] - Amount(rec)
        /\ LedgerFailed(rec) => rec.writes = 0 /\ credits = opening

C1_Witness ==
    \E r \in Runs :
        /\ Success(run[r]) /\ run[r].path = "fallback"
        /\ Amount(run[r]) = BATCH_SIZE + 1
        /\ credits["u1"] = opening["u1"] - (BATCH_SIZE + 1)

\* ------------------------------------------------------------------------
\* C2: no oracle call is issued before the reservation has succeeded; a
\* request the account cannot afford, or whose reservation is rejected, ends
\* with no oracle call (balance 5, 10 records: 402, balance still 5).
\* ------------------------------------------------------------------------
C2_ReserveBeforeOracle ==
    \A r \in Runs :
        LET rec == run[r] IN
        /\ Proceeded(rec) =>
              /\ rec.writes = 1
              /\ rec.newBalance = opening[rec.userId] - Amount(rec)
              /\ rec.newBalance >= 0
        /\ rec.pc \in {"rpc", "fb_select", "fb_update"} => rec.oracleCalls = 0
        /\ LedgerFailed(rec) => rec.oracleCalls = 0
        /\ (LedgerDone(rec) /\ Exists(rec.userId)
              /\ opening[rec.userId] < Amount(rec)) =>
              /\ InsufficientCredits(rec)
              /\ rec.oracleCalls = 0
              /\ credits = opening

C2_Witness ==
    \E r \in Runs :
        /\ InsufficientCredits(run[r])
        /\ Len(run[r].emails) = 10 /\ opening["u1"] = 5 /\ credits["u1"] = 5
        /\ run[r].path = "fallback"
        /\ run[r].oracleCalls = 0

C4_BalanceNeverNegative == \A u \in Accounts : credits[u] \in Nat

\* two reservations passed their compare on the same read and both wrote,
\* and a top-up wrote too
C4_Witness ==
    \E r \in Runs :
        /\ run[r].path = "fallback" /\ run[r].writes = 1
        /\ cons.writes = 1 /\ hook.writes = 1
        /\ run[r].profileCredits = cons.profileCredits
        /\ credits["u1"] = 0

\* ------------------------------------------------------------------------
\* C5: a reservation on an account that does not exist answers
\* AccountNotFound (404, not the 402 of InsufficientCredits) on either
\* ledger path, and no oracle call is made.
\* ------------------------------------------------------------------------
C5_MissingAccountIsNotFound ==
    \A r \in Runs :
        (LedgerDone(run[r]) /\ ~Exists(run[r].userId)) =>
            AccountNotFound(run[r]) /\ run[r].oracleCalls = 0

\* ------------------------------------------------------------------------
\* C6: a request ends with a success whose final report is persisted, or
\* with InsufficientCredits, AccountNotFound or StorageError; a failed final
\* insert is a StorageError, never a success.
\* ------------------------------------------------------------------------
C6_SuccessOrSpecificError ==
    \A r \in Runs :
        LET rec == run[r] IN
        (rec.pc = "done" /\ Validated(rec)) =>
            \/ /\ Success(rec)
               /\ \E row \in FinalRows :
                     /\ row.id = rec.finalReportId /\ row.run = r
                     /\ ResultOf(row) = rec.finalJson
            \/ InsufficientCredits(rec)
            \/ AccountNotFound(rec)
            \/ StorageError(rec) /\ rec.finalReportId = NoId

\* ------------------------------------------------------------------------
\* C7: oracle failures alone do not abort a request.  When every oracle call
\* of a request fails (throws, or answers nothing), every batch's result is
\* {total_emails: batch size, all-zero classification, no highlights, empty
\* summary}; and when no insert fails either, the merge ends, the final
\* report is persisted with degraded values and the request succeeds.
\* ------------------------------------------------------------------------
Degraded(k) == Fallback(<<>>, k)

C8_UnsavedBatchStillMerged ==
    \A r \in Runs :
        LET rec == run[r] IN
        BatchesDone(rec) =>
            /\ Len(rec.partialJsons) = Len(Batches(rec))
            /\ (rec.pc = "done" /\ ~StorageError(rec)) => Success(rec)

\* ------------------------------------------------------------------------
\* C9: safeParseJson returns a well-formed AnalysisResult for every text:
\* total_emails a non-negative integer, classification a map of the four
\* categories to non-negative integers, highlights a sequence, summary a text.
\* ------------------------------------------------------------------------
C9_RepairWellFormed == rep.pc = "returned" => WellFormed(rep.out)

\* ------------------------------------------------------------------------
\* C10: a final report is persisted with is_final = true and with
\* mini_report_ids the ids, in batch order, of the mini-reports (rows with
\* is_final = false) whose results were merged: each merged result has its
\* id in the list, each id of the list is the row of a merged result.
\* ------------------------------------------------------------------------
C10_Provenance ==
    \A f \in FinalRows :
        LET rec == run[f.run]
            ids == f.mini_report_ids
        IN  /\ f.batch = 0
            /\ Len(ids) = Len(rec.partialJsons)
            /\ \A k \in 1..Len(ids) :
                  /\ ids[k] \in RowIds
                  /\ ~RowById(ids[k]).is_final
                  /\ RowById(ids[k]).run = f.run
                  /\ ResultOf(RowById(ids[k])) = rec.partialJsons[k]
            /\ \A k, l \in 1..Len(ids) :
                  k < l => RowById(ids[k]).batch < RowById(ids[l]).batch
            /\ {row.id : row \in {x \in RowsOf(f.run) : ~x.is_final}}
                  = {ids[k] : k \in 1..Len(ids)}

\* three batches, the second one's mini-report not saved: ids of batches 1, 3
C10_Witness ==
    \E f \in FinalRows :
        /\ Len(Batches(run[f.run])) = MaxBatches
        /\ Len(f.mini_report_ids) = MaxBatches - 1
        /\ RowById(f.mini_report_ids[1]).batch = 1
        /\ RowById(f.mini_report_ids[MaxBatches - 1]).batch = MaxBatches

\* ------------------------------------------------------------------------
\* C11: chunkArray(array, size), size >= 1, returns ceil(n / size) batches
\* (none for an empty array), each non-empty and of at most `size` records,
\* all but the last of exactly `size`; the batches concatenated in order are
\* the array itself.
\* ------------------------------------------------------------------------
CeilDiv(n, d) == (n + d - 1) \div d

RECURSIVE Flatten(_)
Flatten(chunks) == IF chunks = <<>> THEN <<>> ELSE Head(chunks) \o Flatten(Tail(chunks))

C11_ChunksPartition ==
    chk.pc = "returned" =>
        LET n == Len(chk.array)
            out == chk.out
        IN  /\ Len(out) = CeilDiv(n, chk.size)
            /\ n = 0 => out = <<>>
            /\ \A k \in 1..Len(out) : Len(out[k]) \in 1..chk.size
            /\ \A k \in 1..(Len(out) - 1) : Len(out[k]) = chk.size
            /\ Flatten(out) = chk.array

\* 120 records by 50: batches of 50, 50 and 20
C11_Witness ==
    /\ chk.pc = "returned"
    /\ Len(chk.array) = 2 * BATCH_SIZE + 20
    /\ chk.size = BATCH_SIZE
    /\ Len(chk.out) = 3
    /\ Len(chk.out[1]) = BATCH_SIZE
    /\ Len(chk.out[3]) = 20

\* ------------------------------------------------------------------------
\* C12: mergeReports of a non-empty list ends, whatever the oracle does on
\* each merge call (it answers JSON, answers something else, answers
\* nothing, throws), and returns one AnalysisResult.  Every step of it is
\* the return of one result, the next group of the same round, or a new
\* round over a list that is strictly shorter than the round's before and
\* not empty: the pair (length of the list, groups left) decreases at every
\* step, and a merge that has not returned awaits a call on a group that
\* exists.
\* ------------------------------------------------------------------------
MergeReturned(rec) == rec.pc = "final_insert" /\ rec.finalJson # NoResult
GroupsOf(rec) == chunkArray(rec.jsonList, MERGE_BATCH_SIZE)

C12_MergeStep(old, new) ==
    \/ MergeReturned(new)
    \/ /\ old.pc = "merge_call" /\ new.pc = "merge"
       /\ new.jsonList = old.partialJsons /\ new.g = 1
    \/ /\ old.pc = "merge" /\ new.pc = "merge"
       /\ new.jsonList = old.jsonList /\ new.rounds = old.rounds
       /\ new.g = old.g + 1
    \/ /\ old.pc = "merge" /\ new.pc = "merge"
       /\ new.rounds = old.rounds + 1
       /\ new.jsonList = old.merged \o <<new.jsonList[Len(new.jsonList)]>>
       /\ Len(new.jsonList) < Len(old.jsonList)
       /\ new.g = 1

C12_MergeTerminates ==
    [][\A r \in Runs :
          run'[r] # run[r] =>
              /\ C12_MergeStep(run[r], run'[r])
              /\ run'[r].pc = "merge" =>
                    /\ Len(run'[r].jsonList) >= 2
                    /\ run'[r].g \in 1..Len(GroupsOf(run'[r]))]_vars

\* two rounds, with a call that threw and a call that answered
C12_Witness ==
    /\ MergeReturned(run[1])
    /\ Len(run[1].partialJsons) = MaxMergeLen
    /\ run[1].rounds = 2
    /\ run[1].oracleAnswers \in 1..(run[1].oracleCalls - 1)
    /\ run[1].mergeKind = "throw"

\* ------------------------------------------------------------------------
\* C13: mergeReports of a list of exactly one result returns that result
\* unchanged, without an oracle call.
\* ------------------------------------------------------------------------
C13_SingleIsIdentity ==
    \A r \in Runs :
        LET rec == run[r] IN
        (rec.pc \notin {"idle", "merge_call"} /\ Len(rec.partialJsons) = 1) =>
            /\ MergeReturned(rec)
            /\ rec.finalJson = rec.partialJsons[1]
            /\ rec.oracleCalls = 0
            /\ rec.rounds = 0

C13_Witness ==
    /\ MergeReturned(run[1])
    /\ run[1].partialJsons = <<ResultWith(BATCH_SIZE, MaxCount)>>
    /\ run[1].finalJson = ResultWith(BATCH_SIZE, MaxCount)
    /\ run[1].oracleCalls = 0

\* ------------------------------------------------------------------------
\* C16: when the oracle call of a merge group fails (it throws, or its
\* completion has no content), the group's merged result is group[0], the
\* first result of the group, and the round goes on with the next group.
\* ------------------------------------------------------------------------
OracleFailed(kind) == kind \in {"throw", "empty"}

C16_FailedGroupKeepsFirst ==
    \A r \in Runs :
        LET rec == run[r]
            groups == GroupsOf(rec)
        IN  OracleFailed(rec.mergeKind) =>
            /\ (rec.pc = "merge" /\ rec.g > 1) =>
                  rec.merged[rec.g - 1] = groups[rec.g - 1][1]
            /\ (rec.pc = "final_insert" /\ rec.rounds >= 1) =>
                  rec.finalJson = groups[1][1]

\* ------------------------------------------------------------------------
\* C14: when the text between the braces parses, safeParseJson gives each
\* required field that is missing its default (total_emails the fallback
\* count, classification the all-zero map, highlights the empty sequence,
\* summary the empty text) and leaves each field that is present as it is,
\* a total_emails of 0 included.
\* ------------------------------------------------------------------------
Required == {"total_emails", "classification", "highlights", "summary"}
Missing(v) == v.t \in {"undefined", "null"}
DefaultOf(key, fallbackTotal) ==
    CASE key = "total_emails" -> JNum(fallbackTotal)
      [] key = "classification" -> AllZero
      [] key = "highlights" -> JArr(<<>>)
      [] OTHER -> JStr(<<>>)

C14_FillsOnlyMissing ==
    rep.pc = "returned" =>
        LET m == RegexMatch(rep.str) IN
        (m # <<>> /\ JsonParses(m)) =>
            \A key \in Required :
                LET v == JsonParse(m)[key] IN
                rep.out[key] = IF Missing(v) THEN DefaultOf(key, rep.fallbackTotal) ELSE v

\* ------------------------------------------------------------------------
\* C15: safeParseJson takes the text from the first "{" to the last "}";
\* when there is none, or when it does not parse, the result is the pure
\* fallback: total_emails the fallback count, all-zero classification, no
\* highlights, and as summary the first 1000 characters of the raw text.
\* ------------------------------------------------------------------------
C15_ExtractOrFallback ==
    rep.pc = "returned" =>
        LET str == rep.str
            opens == {i \in 1..Len(str) : str[i] = LBrace}
            closes == {j \in 1..Len(str) : str[j] = RBrace}
            found == opens # {} /\ closes # {} /\ Min(opens) < Max(closes)
            sub == SubSeq(str, Min(opens), Max(closes))
            first == [i \in 1..Min({Len(str), SUMMARY_SLICE}) |-> str[i]]
        IN  IF found /\ JsonParses(sub)
            THEN rep.out = FillDefaults(JsonParse(sub), rep.fallbackTotal)
            ELSE rep.out = [total_emails |-> JNum(rep.fallbackTotal),
                            classification |-> AllZero,
                            highlights |-> JArr(<<>>),
                            summary |-> JStr(first)]

\* a text of more than 1000 characters whose braces hold no JSON
C15_Witness ==
    /\ rep.pc = "returned"
    /\ Len(rep.str) > SUMMARY_SLICE
    /\ rep.str[1] = LBrace
    /\ rep.fallbackTotal = MaxCount
    /\ rep.out.total_emails = JNum(MaxCount)
    /\ Len(rep.out.summary.s) = SUMMARY_SLICE

\* ------------------------------------------------------------------------
\* C17: mergeReports of N identical results whose classification counts
\* are all C, with an oracle that sums the counts, returns after
\* ceil(log_5 N) rounds a result whose classification counts are all N x C.
\* ------------------------------------------------------------------------
\* the least k with base^k >= n
CeilLog(base, n) == CHOOSE k \in 0..n : base ^ k >= n /\ (k = 0 \/ base ^ (k - 1) < n)

C17_SumInLogRounds ==
    \A r \in Runs :
        LET rec == run[r]
            N == Len(rec.partialJsons)
        IN  MergeReturned(rec) =>
            /\ rec.rounds = CeilLog(MERGE_BATCH_SIZE, N)
            /\ \A k \in Categories :
                  rec.finalJson.classification.c[k]
                      = N * rec.partialJsons[1].classification.c[k]
            /\ rec.finalJson.classification.ks = Categories

\* 26 results: rounds over 26, 6 and 2 results
C17_Witness ==
    /\ MergeReturned(run[1])
    /\ Len(run[1].partialJsons) = MaxIdentical
    /\ run[1].rounds = 3
    /\ run[1].oracleCalls = 6 + 2 + 1
    /\ run[1].finalJson.classification.c["negative"] = MaxIdentical * MaxCount

\* ------------------------------------------------------------------------
\* C18: end to end, when every oracle call answers the JSON of the right
\* counts and no insert fails, a request over n records persists
\* ceil(n / 50) mini-reports and one final report whose mini_report_ids has
\* ceil(n / 50) ids and whose total_emails is n; up to 5 batches are merged
\* in one round.  For n = 120: batches of 50, 50 and 20, one merge round,
\* three ids, total_emails 120.
\* ------------------------------------------------------------------------
C18_EndToEnd ==
    \A r \in Runs :
        LET rec == run[r]
            n == Len(rec.emails)
            b == CeilDiv(n, BATCH_SIZE)
            minis == {row \in RowsOf(r) : ~row.is_final}
            finals == {row \in RowsOf(r) : row.is_final}
        IN  (Proceeded(rec) /\ rec.pc = "done" /\ rec.conserving
                /\ rec.unsaved = 0 /\ ~StorageError(rec)) =>
            /\ Success(rec)
            /\ Cardinality(minis) = b
            /\ {row.batch : row \in minis} = 1..b
            /\ \A row \in minis :
                  row.total_emails =
                      JNum(IF row.batch < b THEN BATCH_SIZE ELSE n - BATCH_SIZE * (b - 1))
            /\ Cardinality(finals) = 1
            /\ \A f \in finals :
                  /\ Len(f.mini_report_ids) = b
                  /\ f.total_emails = JNum(n)
            /\ rec.rounds = CeilLog(MERGE_BATCH_SIZE, b)

C18_Witness ==
    \E f \in FinalRows :
        LET rec == run[f.run] IN
        /\ Success(rec) /\ rec.conserving /\ rec.unsaved = 0
        /\ Len(rec.emails) = BATCH_SIZE * (MaxBatches - 1) + 20
        /\ Len(Batches(rec)) = MaxBatches
        /\ Len(Batches(rec)[MaxBatches - 1]) = BATCH_SIZE
        /\ Len(Batches(rec)[MaxBatches]) = 20
        /\ rec.rounds = 1
        /\ Len(f.mini_report_ids) = MaxBatches
        /\ f.total_emails = JNum(BATCH_SIZE * (MaxBatches - 1) + 20)

\* ------------------------------------------------------------------------
\* C19: while the overlapping requests on an account all reserve through
\* the stored procedure, whatever the interleaving: the requests that go on
\* to oracle work are exactly those whose decrement was accepted, a request
\* whose decrement was rejected answers 402 without an oracle call, the
\* accepted amounts add up to no more than the opening balance, and the
\* balance is the opening balance less that sum.
\* ------------------------------------------------------------------------
RECURSIVE SumAmounts(_)
SumAmounts(S) ==
    IF S = {} THEN 0
    ELSE LET r == CHOOSE x \in S : TRUE
         IN  Amount(run[r]) + SumAmounts(S \ {r})

Accepted == {r \in Runs : run[r].path = "rpc" /\ run[r].writes = 1}
Rejected == {r \in Runs : run[r].path = "rpc" /\ run[r].writes = 0}

C19_AtomicPathSerializes ==
    (\A r \in Runs : run[r].path # "fallback") =>
        /\ \A r \in Runs : Proceeded(run[r]) <=> r \in Accepted
        /\ \A r \in Rejected : InsufficientCredits(run[r]) /\ run[r].oracleCalls = 0
        /\ \A u \in Accounts :
              /\ SumAmounts(Accepted) <= opening[u]
              /\ credits[u] = opening[u] - SumAmounts(Accepted)

\* two requests whose amounts together exceed the balance: one accepted
\* and finished, the other rejected
C19_Witness ==
    \E r1, r2 \in Runs :
        /\ r1 \in Accepted /\ r2 \in Rejected
        /\ Success(run[r1]) /\ InsufficientCredits(run[r2])
        /\ Amount(run[r1]) + Amount(run[r2]) > opening["u1"]
        /\ Amount(run[r2]) <= opening["u1"]
        /\ credits["u1"] = opening["u1"] - Amount(run[r1])

\* ------------------------------------------------------------------------
\* C20: the fallback path (read the balance, compare, write balance less
\* amount) loses an update when two reservations overlap: when both read
\* the balance before either wrote, both pass the compare, both go on to
\* oracle work, and the balance ends as the opening balance less ONE of
\* the amounts, above the opening balance less their sum; also when the
\* two amounts together exceed the opening balance.
\* ------------------------------------------------------------------------
BothOnFallback(r1, r2) ==
    /\ r1 # r2
    /\ run[r1].path = "fallback" /\ run[r2].path = "fallback"
    /\ run[r1].writes = 1 /\ run[r2].writes = 1
    /\ \A r \in Runs \ {r1, r2} : run[r].writes = 0
    /\ run[r1].profileCredits = run[r2].profileCredits

C20_FallbackLosesUpdate ==
    \A r1, r2 \in Runs :
        BothOnFallback(r1, r2) =>
            /\ Proceeded(run[r1]) /\ Proceeded(run[r2])
            /\ credits["u1"] \in {opening["u1"] - Amount(run[r1]),
                                  opening["u1"] - Amount(run[r2])}
            /\ credits["u1"] > opening["u1"] - (Amount(run[r1]) + Amount(run[r2]))

C20_Witness ==
    \E r1, r2 \in Runs :
        /\ BothOnFallback(r1, r2)
        /\ Success(run[r1]) /\ Success(run[r2])
        /\ Amount(run[r1]) + Amount(run[r2]) > opening["u1"]
        /\ credits["u1"] = opening["u1"] - Amount(run[r2])
        /\ credits["u1"] >= 0

\* ------------------------------------------------------------------------
\* C21: within one request the batches are handled one after the other in
\* index order, with at most one oracle call outstanding: the call of the
\* first batch follows the reservation, the call of batch i + 1 is issued
\* when the insert of batch i's mini-report has answered (after batch i's
\* call ended), and the first merge call is issued when the insert of the
\* last batch has answered.
\* ------------------------------------------------------------------------
Outstanding(rec) == rec.oracleCalls - rec.oracleSettled

C21_OneStep(old, new) ==
    /\ Outstanding(new) \in {0, 1}
    /\ Outstanding(new) = 1 <=> new.pc \in {"oracle", "merge"}
    /\ new.oracleCalls > old.oracleCalls =>
          /\ new.oracleCalls = old.oracleCalls + 1
          /\ Outstanding(old) = 0 \/ new.oracleSettled = old.oracleSettled + 1
    /\ (new.pc = "oracle" /\ old.pc # "oracle") =>
          \/ new.i = 1 /\ old.pc \in {"rpc", "fb_update"} /\ old.oracleCalls = 0
          \/ /\ old.pc = "mini_insert" /\ new.i = old.i + 1
             /\ old.oracleSettled = old.i
    /\ (new.pc = "mini_insert" /\ old.pc # "mini_insert") =>
          old.pc = "oracle" /\ new.i = old.i /\ new.oracleSettled = new.i
    /\ (new.pc = "merge" /\ old.pc # "merge") =>
          /\ old.pc = "mini_insert" /\ old.i = Len(Batches(old))
          /\ old.oracleSettled = Len(Batches(old))

C21_SequentialBatches ==
    [][\A r \in Runs : run'[r] # run[r] => C21_OneStep(run[r], run'[r])]_vars

\* the call of the third batch is outstanding, the first two batches are
\* analysed and saved
C21_Witness ==
    \E r \in Runs :
        /\ run[r].pc = "oracle" /\ run[r].i = MaxBatches
        /\ run[r].oracleCalls = MaxBatches /\ run[r].oracleSettled = MaxBatches - 1
        /\ Len(run[r].miniReportIds) = MaxBatches - 1

\* ------------------------------------------------------------------------
\* C22: a request only inserts rows into reports: a step adds at most one
\* row, under an id no row has, and leaves every row there is as it is (no
\* update, no delete); a request inserts at most one final row, and no
\* mini-report row after its final row.
\* ------------------------------------------------------------------------
C22_Step ==
    LET added == reports' \ reports IN
    /\ reports \subseteq reports'
    /\ Cardinality(added) <= 1
    /\ \A row \in added :
          /\ row.id \notin RowIds
          /\ \A old \in RowsOf(row.run) : ~old.is_final
          /\ row.is_final =>
                /\ run[row.run].pc = "final_insert"
                /\ row.mini_report_ids = run[row.run].miniReportIds
                /\ {old.id : old \in RowsOf(row.run)}
                      = {row.mini_report_ids[k] : k \in 1..Len(row.mini_report_ids)}
          /\ ~row.is_final => run[row.run].pc = "mini_insert"

C22_InsertOnly == [][C22_Step]_vars

\* a final row, inserted after the three mini-report rows of its request
C22_Witness ==
    \E f \in FinalRows :
        /\ Cardinality(RowsOf(f.run)) = MaxBatches + 1
        /\ Cardinality({row \in RowsOf(f.run) : row.is_final}) = 1
        /\ Cardinality(RowIds) = Cardinality(reports)

\* ------------------------------------------------------------------------
\* C23: once a request has reserved, it never writes the balance again:
\* oracle calls, repair, mini-report inserts, merging, the final insert and
\* every failure after the reservation leave the balance at its reserved
\* value; a request that fails after it was charged is not refunded and not
\* charged again.
\* ------------------------------------------------------------------------
FailedAfterCharge(rec) ==
    Proceeded(rec) /\ rec.pc = "done" /\ rec.status = 500

C23_Step ==
    \A r \in Runs :
        (Proceeded(run[r]) /\ run'[r] # run[r]) =>
            /\ credits' = credits
            /\ run'[r].writes = 1 /\ run[r].writes = 1
            /\ run'[r].newBalance = run[r].newBalance
            /\ credits'[run[r].userId] = run[r].newBalance
            /\ FailedAfterCharge(run'[r]) =>
                  credits'[run[r].userId] = opening[run[r].userId] - Amount(run[r])

C23_NoWriteAfterReserve == [][C23_Step]_vars

\* charged 120 credits, the final insert failed: the balance stays 120 down
C23_Witness ==
    \E r \in Runs :
        /\ StorageError(run[r])
        /\ Amount(run[r]) = BATCH_SIZE * (MaxBatches - 1) + 20
        /\ run[r].writes = 1
        /\ credits["u1"] = opening["u1"] - Amount(run[r])
        /\ credits["u1"] = run[r].newBalance

\* ------------------------------------------------------------------------
\* C24: a top-up by the webhook (read credits, write credits + purchased)
\* that overlaps a reservation on the same account loses neither update:
\* when both have written, the balance is the opening balance plus the
\* credits purchased less the amount reserved.
\* ------------------------------------------------------------------------
C24_TopUpKeepsBoth ==
    \A r \in Runs :
        (/\ hook.pc = "done" /\ hook.writes = 1
         /\ run[r].writes = 1
         /\ \A other \in Runs \ {r} : run[other].writes = 0
         /\ cons.writes = 0) =>
            credits[hook.userId]
                = opening[hook.userId] + hook.creditsPurchased - Amount(run[r])

\* ------------------------------------------------------------------------
\* C25: a request without userId, or whose emails are missing, not an array
\* or empty, is answered 400 before any effect: the balance is unchanged,
\* no oracle call is made, no row is written; and only such a request is.
\* ------------------------------------------------------------------------
Invalid(rec) == rec.userId = "" \/ ~rec.isArray \/ rec.emails = <<>>

C25_RejectedBeforeEffect ==
    \A r \in Runs :
        LET rec == run[r] IN
        rec.pc # "idle" =>
            /\ Invalid(rec) <=> (rec.pc = "done" /\ rec.status = 400)
            /\ Invalid(rec) =>
                  /\ rec.error = "Missing userId or emails"
                  /\ credits = opening
                  /\ rec.writes = 0 /\ rec.path = ""
                  /\ rec.oracleCalls = 0
                  /\ RowsOf(r) = {}

\* an existing account's request with an empty list, answered 400
C25_Witness ==
    \E r \in Runs :
        /\ run[r].pc = "done" /\ run[r].status = 400
        /\ run[r].userId = "u1" /\ run[r].isArray /\ run[r].emails = <<>>
        /\ credits = opening /\ opening["u1"] > 0
        /\ reports = {}

====
